---- MODULE Spec2Model ----
(***************************************************************************)
(* A model of tools/consume.c of rabbitmq-c: the amqp-consume tool.  main  *)
(* parses its options, connects, provisions the queue (setup_queue) and    *)
(* runs the consumption loop (do_consume), which pipes every delivered     *)
(* message into a freshly spawned command and acknowledges the message     *)
(* when that command exits with status zero.                               *)
(*                                                                         *)
(* The program is single threaded; pc is the position of that thread.      *)
(* Every call into librabbitmq or into the tool's common.c / process.c is  *)
(* one step, whose outcome (reply, frame, exit status) is chosen by the    *)
(* environment.  trace is the history of those calls, in program order.    *)
(***************************************************************************)
EXTENDS Integers, Sequences, FiniteSets

VARIABLES
    queue,          \* main: char *queue         (--queue)
    exchange,       \* main: char *exchange      (--exchange)
    routing_key,    \* main: char *routing_key   (--routing-key)
    declare,        \* main: int declare         (--declare)
    no_ack,         \* main: int no_ack          (--no-ack)
    count,          \* main: int count           (--count)
    cmd_argv,       \* main: the positional arguments, the command to run
    pc,             \* position of the thread of control
    conn,           \* main: the connection, "none" | "open" | "closed"
    queue_bytes,    \* setup_queue: queue_bytes, then main: queue_bytes
    i,              \* do_consume: the loop counter
    frame,          \* do_consume: the frame of the current iteration
    delivery_tag,   \* do_consume: the tag of the current delivery
    pl,             \* do_consume: the pipeline of the current iteration
    trace,          \* history: the calls made so far, in order
    err_out,        \* what was written to stderr
    exit_status     \* the exit status of the process, -1 while it runs

opts == <<queue, exchange, routing_key, declare, no_ack, count, cmd_argv>>
loopvars == <<i, frame, delivery_tag, pl>>
vars == <<queue, exchange, routing_key, declare, no_ack, count, cmd_argv,
          pc, conn, queue_bytes, i, frame, delivery_tag, pl, trace,
          err_out, exit_status>>

(***************************************************************************)
(* Bounds of the model.                                                    *)
(***************************************************************************)
\* the number of frames the broker sends before it falls silent
MaxFrames == 3

\* the longest byte sequence given to stringify_bytes
MaxLen == 4

(***************************************************************************)
(* Values.  A C string is the sequence of its bytes; the null pointer is   *)
(* a value that is no string.                                              *)
(***************************************************************************)
NULL == <<-1>>
amqp_empty_bytes == <<>>

\* the largest prefetch count basic.qos can carry (uint16_t)
MaxPrefetch == 65535

QueueOptions == {NULL, <<>>, <<113>>}
ExchangeOptions == {NULL, <<101>>}
RoutingKeyOptions == {NULL, <<114>>}
CountOptions == {-1, 0, 1, 2, MaxPrefetch, MaxPrefetch + 1}
CommandOptions == {<<>>, <<"cat">>}
\* the names a broker generates for a queue declared with an empty name
ServerNames == {<<97, 109, 113>>, <<97, 7, 127>>}
\* the delivery tags of the basic.deliver frames the broker sends
DeliveryTags == {1, 42}

\* frames as do_consume sees them: the type, and for a method frame the
\* method id and (for basic.deliver) the decoded delivery tag.  In a frame
\* that is no method frame the payload is a union member of another type,
\* so its method id is whatever bytes lie there.
NoFrame == [frame_type |-> "none", id |-> "none", delivery_tag |-> 0]
DeliverFrames ==
    { [frame_type |-> "AMQP_FRAME_METHOD", id |-> "AMQP_BASIC_DELIVER_METHOD",
       delivery_tag |-> t] : t \in DeliveryTags }
OtherFrames ==
    { [frame_type |-> "AMQP_FRAME_METHOD", id |-> "AMQP_BASIC_CANCEL_METHOD",
       delivery_tag |-> 0],
      [frame_type |-> "AMQP_FRAME_HEARTBEAT", id |-> "AMQP_BASIC_DELIVER_METHOD",
       delivery_tag |-> 0] }
Frames == DeliverFrames \cup OtherFrames

NoPipeline == "none"

(***************************************************************************)
(* Helpers of common.c.                                                    *)
(***************************************************************************)
\* cstring_bytes: the bytes of a string, the empty bytes for a null pointer
cstring_bytes(str) == IF str = NULL THEN amqp_empty_bytes ELSE str

\* stringify_bytes without the & 0x7 on the middle digit
RECURSIVE StringifyNoMask(_)
StringifyNoMask(bytes) ==
    IF bytes = <<>> THEN <<>>
    ELSE LET b == Head(bytes)
             c == IF b >= 32 /\ b # 127
                  THEN <<b>>
                  ELSE <<92, 48 + (b \div 64), 48 + (b \div 8), 48 + (b % 8)>>
         IN  c \o StringifyNoMask(Tail(bytes))

\* lines 49-71, stringify_bytes: printable bytes as they are, the others
\* as a backslash and three octal digits
RECURSIVE stringify_bytes(_)
stringify_bytes(bytes) ==
    IF bytes = <<>> THEN <<>>
    ELSE LET b == Head(bytes)
             c == IF b >= 32 /\ b # 127
                  THEN <<b>>
                  ELSE <<92, 48 + (b \div 64), 48 + ((b \div 8) % 8),
                         48 + (b % 8)>>
         IN  c \o stringify_bytes(Tail(bytes))

\* one entry of the history: the call, whether it succeeded, the value of
\* the loop counter when it was made, and the call's arguments
Event(op, ok, arg) == [op |-> op, ok |-> ok, i |-> i, arg |-> arg]
NoArg == [none |-> TRUE]

\* die_rpc, die_amqp_error and friends: report the context and exit(1)
Die(context, ev) ==
    /\ trace' = Append(trace, ev)
    /\ err_out' = Append(err_out, <<context, <<>>>>)
    /\ exit_status' = 1
    /\ pc' = "exited"

\* make_connection: a connection, or the process dies
MakeConnectionOutcomes == {"connected", "failed"}
\* pipeline: the command is spawned, or the process dies
PipelineOutcomes == {"spawned", "failed"}
\* copy_body: the whole body is written to the pipeline, or the process dies
CopyBodyOutcomes == {"streamed", "failed"}
\* finish_pipeline: did every stage of the pipeline exit with status zero?
FinishPipelineOutcomes == BOOLEAN

(***************************************************************************)
(* The initial state: the options as process_options left them.            *)
(***************************************************************************)
Init ==
    /\ queue \in QueueOptions
    /\ exchange \in ExchangeOptions
    /\ routing_key \in RoutingKeyOptions
    /\ declare \in {0, 1}
    /\ no_ack \in {0, 1}
    /\ count \in CountOptions
    /\ cmd_argv \in CommandOptions
    /\ pc = "main"
    /\ conn = "none"
    /\ queue_bytes = amqp_empty_bytes
    /\ i = 0
    /\ frame = NoFrame
    /\ delivery_tag = 0
    /\ pl = NoPipeline
    /\ trace = <<>>
    /\ err_out = <<>>
    /\ exit_status = -1

(***************************************************************************)
(* main                                                                    *)
(***************************************************************************)
\* main, lines 195-200: no command given
Main ==
    /\ pc = "main"
    /\ IF cmd_argv = <<>>
       THEN /\ err_out' = Append(err_out,
                                 <<"consuming command not specified", <<>>>>)
            /\ exit_status' = 1
            /\ pc' = "exited"
       ELSE /\ pc' = "make_connection"
            /\ UNCHANGED <<err_out, exit_status>>
    /\ UNCHANGED <<opts, loopvars, conn, queue_bytes, trace>>

\* main, line 202: conn = make_connection()
MakeConnection ==
    /\ pc = "make_connection"
    /\ \E res \in MakeConnectionOutcomes :
         IF res = "connected"
         THEN /\ conn' = "open"
              /\ trace' = Append(trace, Event("connect", TRUE, NoArg))
              /\ pc' = "setup_queue"
              /\ UNCHANGED <<err_out, exit_status>>
         ELSE /\ Die("opening connection", Event("connect", FALSE, NoArg))
              /\ UNCHANGED conn
    /\ UNCHANGED <<opts, loopvars, queue_bytes>>

(***************************************************************************)
(* setup_queue                                                             *)
(***************************************************************************)
\* the declare test that forgets the exchange
DeclareNeededForgetsExchange == queue = NULL \/ declare # 0

\* line 87: is the queue to be declared?
DeclareNeeded == queue = NULL \/ exchange # NULL \/ declare # 0

\* the option check testing for a missing routing key
RoutingKeyCheckInverted == exchange = NULL /\ routing_key = NULL

\* line 81: a routing key was given and no exchange to bind to
RoutingKeyWithoutExchange == exchange = NULL /\ routing_key # NULL

\* lines 77-87: the option check and the decision to declare
SetupQueue ==
    /\ pc = "setup_queue"
    /\ queue_bytes' = cstring_bytes(queue)
    /\ IF RoutingKeyWithoutExchange
       THEN /\ err_out' = Append(err_out,
                   <<"--routing-key option requires an exchange", <<>>>>)
            /\ exit_status' = 1
            /\ pc' = "exited"
       ELSE /\ pc' = IF DeclareNeeded THEN "queue_declare" ELSE "do_consume"
            /\ UNCHANGED <<err_out, exit_status>>
    /\ UNCHANGED <<opts, loopvars, conn, trace>>

\* the queue name in a queue.declare-ok: the name asked for, or a name the
\* broker made up when none was asked for
DeclaredNames(name) == IF name = amqp_empty_bytes THEN ServerNames ELSE {name}

DeclareArg(name) ==
    [queue |-> name, passive |-> 0, durable |-> 0, exclusive |-> 1,
     auto_delete |-> 1]

\* lines 89-106: amqp_queue_declare and the capture of the server's name
QueueDeclare ==
    /\ pc = "queue_declare"
    /\ \/ /\ Die("queue.declare",
                 Event("queue.declare", FALSE, DeclareArg(queue_bytes)))
          /\ UNCHANGED queue_bytes
       \/ \E res \in DeclaredNames(queue_bytes) :
            /\ trace' = Append(trace,
                   Event("queue.declare", TRUE, DeclareArg(queue_bytes)))
            /\ IF queue = NULL
               THEN /\ queue_bytes' = res
                    /\ err_out' = Append(err_out,
                           <<"Server provided queue name", stringify_bytes(res)>>)
               ELSE UNCHANGED <<queue_bytes, err_out>>
            /\ pc' = IF exchange # NULL THEN "queue_bind" ELSE "do_consume"
            /\ UNCHANGED exit_status
    /\ UNCHANGED <<opts, loopvars, conn>>

\* the bind naming the queue option, not the queue identity
BindArgOptionName ==
    [queue |-> cstring_bytes(queue), exchange |-> exchange,
     routing_key |-> cstring_bytes(routing_key)]

\* lines 107-110: the arguments of amqp_queue_bind
BindArg ==
    [queue |-> queue_bytes, exchange |-> exchange,
     routing_key |-> cstring_bytes(routing_key)]

\* lines 106-113: amqp_queue_bind
QueueBind ==
    /\ pc = "queue_bind"
    /\ \/ Die("queue.bind", Event("queue.bind", FALSE, BindArg))
       \/ /\ trace' = Append(trace, Event("queue.bind", TRUE, BindArg))
          /\ pc' = "do_consume"
          /\ UNCHANGED <<err_out, exit_status>>
    /\ UNCHANGED <<opts, loopvars, conn, queue_bytes>>

(***************************************************************************)
(* do_consume                                                              *)
(***************************************************************************)
\* the qos test without its upper limit
QosNeededNoUpperLimit == count > 0

\* line 125: is there a limit that basic.qos can carry?
QosNeeded == count > 0 /\ count <= MaxPrefetch

\* the loop test taking a count that basic.qos cannot carry for no limit
ForTestUnboundedAboveRange(iv) ==
    IF count < 0 \/ count > MaxPrefetch \/ iv < count
    THEN "wait_frame" ELSE "close_connection"

\* the loop test with <= in the place of <
ForTestOffByOne(iv) ==
    IF count < 0 \/ iv <= count THEN "wait_frame" ELSE "close_connection"

\* line 133: the loop test, giving the place the loop goes to when its
\* counter is iv: one more iteration, or the return to main
ForTest(iv) ==
    IF count < 0 \/ iv < count THEN "wait_frame" ELSE "close_connection"

\* lines 124-127: amqp_basic_qos, when there is a limit
BasicQos ==
    /\ pc = "do_consume"
    /\ IF QosNeeded
       THEN \/ Die("basic.qos",
                   Event("basic.qos", FALSE, [prefetch_count |-> count]))
            \/ /\ trace' = Append(trace,
                      Event("basic.qos", TRUE, [prefetch_count |-> count]))
               /\ pc' = "basic_consume"
               /\ UNCHANGED <<err_out, exit_status>>
       ELSE /\ pc' = "basic_consume"
            /\ UNCHANGED <<trace, err_out, exit_status>>
    /\ UNCHANGED <<opts, loopvars, conn, queue_bytes>>

ConsumeArg ==
    [queue |-> queue_bytes, consumer_tag |-> amqp_empty_bytes,
     no_ack |-> no_ack, exclusive |-> 0]

\* lines 129-133: amqp_basic_consume, then the loop is entered with i = 0
BasicConsume ==
    /\ pc = "basic_consume"
    /\ \/ /\ Die("basic.consume", Event("basic.consume", FALSE, ConsumeArg))
          /\ UNCHANGED i
       \/ /\ trace' = Append(trace, Event("basic.consume", TRUE, ConsumeArg))
          /\ i' = 0
          /\ pc' = ForTest(0)
          /\ UNCHANGED <<err_out, exit_status>>
    /\ UNCHANGED <<opts, frame, delivery_tag, pl, conn, queue_bytes>>

\* lines 140-141: is the frame a basic.deliver method frame?
IsDeliver(f) ==
    f.frame_type = "AMQP_FRAME_METHOD" /\ f.id = "AMQP_BASIC_DELIVER_METHOD"

\* the frame wait whose discarded frames leave the counter alone
WaitFrameDiscardUncounted ==
    /\ pc = "wait_frame"
    /\ Len(SelectSeq(trace, LAMBDA e : e.op = "wait_frame")) < MaxFrames
    /\ \/ /\ Die("waiting for header frame",
                 Event("wait_frame", FALSE, NoFrame))
          /\ UNCHANGED <<frame, delivery_tag>>
       \/ \E f \in Frames :
            /\ frame' = f
            /\ trace' = Append(trace, Event("wait_frame", TRUE, f))
            /\ IF f.frame_type = "AMQP_FRAME_METHOD"
                  /\ f.id = "AMQP_BASIC_DELIVER_METHOD"
               THEN /\ delivery_tag' = f.delivery_tag
                    /\ pc' = "pipeline"
               ELSE /\ pc' = "wait_frame"
                    /\ UNCHANGED delivery_tag
            /\ UNCHANGED <<err_out, exit_status>>
    /\ UNCHANGED <<opts, i, pl, conn, queue_bytes>>

\* the frame waits recorded in the history
FramesWaited == Len(SelectSeq(trace, LAMBDA e : e.op = "wait_frame"))

\* lines 137-146: amqp_simple_wait_frame; a frame that announces no delivery
\* is skipped by continue, which runs the loop's i++ and its test
WaitFrame ==
    /\ pc = "wait_frame"
    /\ FramesWaited < MaxFrames
    /\ \/ /\ Die("waiting for header frame",
                 Event("wait_frame", FALSE, NoFrame))
          /\ UNCHANGED <<i, frame, delivery_tag>>
       \/ \E f \in Frames :
            /\ frame' = f
            /\ trace' = Append(trace, Event("wait_frame", TRUE, f))
            /\ IF IsDeliver(f)
               THEN /\ delivery_tag' = f.delivery_tag
                    /\ pc' = "pipeline"
                    /\ UNCHANGED i
               ELSE /\ i' = i + 1
                    /\ pc' = ForTest(i + 1)
                    /\ UNCHANGED delivery_tag
            /\ UNCHANGED <<err_out, exit_status>>
    /\ UNCHANGED <<opts, pl, conn, queue_bytes>>

\* line 148: pipeline(argv, &pl) spawns the command
Pipeline ==
    /\ pc = "pipeline"
    /\ \E res \in PipelineOutcomes :
         IF res = "spawned"
         THEN /\ pl' = "spawned"
              /\ trace' = Append(trace,
                     Event("pipeline", TRUE, [argv |-> cmd_argv]))
              /\ pc' = "copy_body"
              /\ UNCHANGED <<err_out, exit_status>>
         ELSE /\ Die("fork", Event("pipeline", FALSE, [argv |-> cmd_argv]))
              /\ UNCHANGED pl
    /\ UNCHANGED <<opts, i, frame, delivery_tag, conn, queue_bytes>>

\* line 149: copy_body(conn, pl.infd) streams the body into the pipeline
CopyBody ==
    /\ pc = "copy_body"
    /\ \E res \in CopyBodyOutcomes :
         IF res = "streamed"
         THEN /\ pl' = "streamed"
              /\ trace' = Append(trace,
                     Event("copy_body", TRUE, [delivery_tag |-> delivery_tag]))
              /\ pc' = "finish_pipeline"
              /\ UNCHANGED <<err_out, exit_status>>
         ELSE /\ Die("waiting for body frame",
                     Event("copy_body", FALSE, [delivery_tag |-> delivery_tag]))
              /\ UNCHANGED pl
    /\ UNCHANGED <<opts, i, frame, delivery_tag, conn, queue_bytes>>

\* the acknowledgment decision that forgets the exit status
AckNeededWhateverStatus(success) == no_ack = 0

\* line 151: the acknowledgment decision
AckNeeded(success) == success /\ no_ack = 0

\* the test of line 151 with its operands swapped: in no-ack mode
\* finish_pipeline is not called and the pipeline is left as it is
FinishPipelineAfterNoAckTest ==
    /\ pc = "finish_pipeline"
    /\ IF no_ack # 0
       THEN /\ pc' = "release_buffers"
            /\ UNCHANGED <<pl, trace>>
       ELSE \E success \in FinishPipelineOutcomes :
              /\ pl' = "reaped"
              /\ trace' = Append(trace,
                     Event("finish_pipeline", TRUE, [success |-> success]))
              /\ pc' = IF success THEN "basic_ack" ELSE "release_buffers"
    /\ UNCHANGED <<opts, i, frame, delivery_tag, conn, queue_bytes, err_out,
                   exit_status>>

\* finish_pipeline whose failure ends the process
FinishPipelineFatal ==
    /\ pc = "finish_pipeline"
    /\ \E success \in FinishPipelineOutcomes :
         /\ pl' = "reaped"
         /\ IF success
            THEN /\ trace' = Append(trace,
                        Event("finish_pipeline", TRUE, [success |-> success]))
                 /\ pc' = IF no_ack = 0 THEN "basic_ack" ELSE "release_buffers"
                 /\ UNCHANGED <<err_out, exit_status>>
            ELSE Die("pipeline failed",
                     Event("finish_pipeline", TRUE, [success |-> success]))
    /\ UNCHANGED <<opts, i, frame, delivery_tag, conn, queue_bytes>>

\* line 151: finish_pipeline(&pl) reaps the command; was its status zero?
FinishPipeline ==
    /\ pc = "finish_pipeline"
    /\ \E success \in FinishPipelineOutcomes :
         /\ pl' = "reaped"
         /\ trace' = Append(trace,
                Event("finish_pipeline", TRUE, [success |-> success]))
         /\ pc' = IF AckNeeded(success) THEN "basic_ack" ELSE "release_buffers"
    /\ UNCHANGED <<opts, i, frame, delivery_tag, conn, queue_bytes, err_out,
                   exit_status>>

\* the acknowledgment naming the ordinal of the delivery, not its tag
AckArgOrdinal == [delivery_tag |-> i + 1, multiple |-> 0]

\* the acknowledgment of every tag up to this one
AckArgMultiple == [delivery_tag |-> delivery_tag, multiple |-> 1]

\* lines 152-153: the arguments of amqp_basic_ack
AckArg == [delivery_tag |-> delivery_tag, multiple |-> 0]

\* amqp_basic_ack with its result ignored
BasicAckUnchecked ==
    /\ pc = "basic_ack"
    /\ \E ok \in BOOLEAN :
         trace' = Append(trace, Event("basic.ack", ok, AckArg))
    /\ pc' = "release_buffers"
    /\ UNCHANGED <<opts, loopvars, conn, queue_bytes, err_out, exit_status>>

\* lines 152-154: amqp_basic_ack for the tag of this iteration
BasicAck ==
    /\ pc = "basic_ack"
    /\ \/ Die("basic.ack", Event("basic.ack", FALSE, AckArg))
       \/ /\ trace' = Append(trace, Event("basic.ack", TRUE, AckArg))
          /\ pc' = "release_buffers"
          /\ UNCHANGED <<err_out, exit_status>>
    /\ UNCHANGED <<opts, loopvars, conn, queue_bytes>>

\* the end of the loop body without the i++
ReleaseBuffersNoIncrement ==
    /\ pc = "release_buffers"
    /\ trace' = Append(trace, Event("release_buffers", TRUE, NoArg))
    /\ frame' = NoFrame
    /\ delivery_tag' = 0
    /\ pl' = NoPipeline
    /\ pc' = ForTest(i)
    /\ UNCHANGED <<opts, i, conn, queue_bytes, err_out, exit_status>>

\* lines 156-157 and 133: amqp_maybe_release_buffers, the end of the loop
\* body (its locals die), i++ and the loop test
ReleaseBuffers ==
    /\ pc = "release_buffers"
    /\ trace' = Append(trace, Event("release_buffers", TRUE, NoArg))
    /\ i' = i + 1
    /\ frame' = NoFrame
    /\ delivery_tag' = 0
    /\ pl' = NoPipeline
    /\ pc' = ForTest(i + 1)
    /\ UNCHANGED <<opts, conn, queue_bytes, err_out, exit_status>>

\* main returning 0 without the close_connection
CloseConnectionSkipped ==
    /\ pc = "close_connection"
    /\ exit_status' = 0
    /\ pc' = "exited"
    /\ UNCHANGED <<opts, loopvars, conn, queue_bytes, trace, err_out>>

\* main, lines 205-206: close_connection(conn); return 0
CloseConnection ==
    /\ pc = "close_connection"
    /\ conn' = "closed"
    /\ trace' = Append(trace, Event("close", TRUE, NoArg))
    /\ exit_status' = 0
    /\ pc' = "exited"
    /\ UNCHANGED <<opts, loopvars, queue_bytes, err_out>>

Next ==
    \/ Main
    \/ MakeConnection
    \/ SetupQueue
    \/ QueueDeclare
    \/ QueueBind
    \/ BasicQos
    \/ BasicConsume
    \/ WaitFrame
    \/ Pipeline
    \/ CopyBody
    \/ FinishPipeline
    \/ BasicAck
    \/ ReleaseBuffers
    \/ CloseConnection

Spec == Init /\ [][Next]_vars

TypeOK ==
    /\ pc \in {"main", "make_connection", "setup_queue", "queue_declare",
               "queue_bind", "do_consume", "basic_consume", "wait_frame",
               "pipeline", "copy_body", "finish_pipeline", "basic_ack",
               "release_buffers", "close_connection", "exited"}
    /\ conn \in {"none", "open", "closed"}
    /\ exit_status \in {-1, 0, 1}
    /\ i \in Nat
    /\ pl \in {NoPipeline, "spawned", "streamed", "reaped"}

(***************************************************************************)
(* The history, read back.                                                 *)
(***************************************************************************)
\* the places of the history where op was called
EventsOf(op) == { k \in DOMAIN trace : trace[k].op = op }
\* ... in the loop iteration whose counter was n
IterEvents(op, n) == { k \in EventsOf(op) : trace[k].i = n }
\* the places where a frame wait returned a basic.deliver method frame
Deliveries ==
    { k \in EventsOf("wait_frame") :
        /\ trace[k].ok
        /\ trace[k].arg.frame_type = "AMQP_FRAME_METHOD"
        /\ trace[k].arg.id = "AMQP_BASIC_DELIVER_METHOD" }
\* setup_queue has returned to main
SetupReturned ==
    \/ pc \in {"do_consume", "basic_consume", "wait_frame", "pipeline",
               "copy_body", "finish_pipeline", "basic_ack", "release_buffers",
               "close_connection"}
    \/ EventsOf("basic.qos") # {}
    \/ EventsOf("basic.consume") # {}

(***************************************************************************)
(* C1: in ack mode, a delivery whose pipeline exited zero is acknowledged  *)
(* exactly once: no ack before finish_pipeline returned, one ack as soon   *)
(* as the program has moved on from there; the ack carries the tag of the  *)
(* basic.deliver frame of the same loop iteration and comes after that     *)
(* iteration's copy_body returned and after finish_pipeline.               *)
(***************************************************************************)
C1_AckOwnTagAfterBody ==
    \A k \in DOMAIN trace :
      (trace[k].op = "finish_pipeline" /\ trace[k].arg.success /\ no_ack = 0)
      => LET n == trace[k].i
             acks == IterEvents("basic.ack", n)
         IN  /\ Cardinality(acks) <= 1
             /\ k < Len(trace) => Cardinality(acks) = 1
             /\ \A a \in acks :
                  /\ a > k
                  /\ \E w \in Deliveries, c \in IterEvents("copy_body", n) :
                       /\ trace[w].i = n
                       /\ trace[a].arg.delivery_tag = trace[w].arg.delivery_tag
                       /\ trace[c].ok
                       /\ w < c /\ c < k

\* a second delivery, with another tag than the first, has been acknowledged
C1_Witness ==
    \E a \in EventsOf("basic.ack"), w \in Deliveries :
      /\ trace[a].ok
      /\ trace[w].i < trace[a].i
      /\ trace[w].arg.delivery_tag # trace[a].arg.delivery_tag

(***************************************************************************)
(* C2: no basic.ack is sent in an iteration whose pipeline exited          *)
(* non-zero, none at all in a run in no-ack mode, and no reject, nack or   *)
(* recover is ever sent.                                                   *)
(***************************************************************************)
C2_NoAckOnFailureOrNoAckMode ==
    /\ \A k \in DOMAIN trace :
         trace[k].op \notin {"basic.reject", "basic.nack", "basic.recover"}
    /\ no_ack # 0 => EventsOf("basic.ack") = {}
    /\ \A k \in EventsOf("finish_pipeline") :
         ~trace[k].arg.success => IterEvents("basic.ack", trace[k].i) = {}
    /\ \A a \in EventsOf("basic.ack") :
         \E k \in IterEvents("finish_pipeline", trace[a].i) :
           trace[k].arg.success /\ k < a

\* in ack mode, the iteration of a failed pipeline has come to its end
C2_Witness ==
    /\ no_ack = 0
    /\ \E k \in EventsOf("finish_pipeline") :
         /\ ~trace[k].arg.success
         /\ IterEvents("release_buffers", trace[k].i) # {}

(***************************************************************************)
(* C3: with count = N in 1..65535 at most N deliveries are processed (at   *)
(* most N pipelines spawned), basic.qos is requested at most once, with    *)
(* prefetch count N, and a basic.consume is only issued after it.          *)
(***************************************************************************)
C3_BoundedRunQosBeforeConsume ==
    (count >= 1 /\ count <= 65535) =>
      /\ Cardinality(EventsOf("pipeline")) <= count
      /\ Cardinality(Deliveries) <= count
      /\ Cardinality(EventsOf("basic.qos")) <= 1
      /\ \A q \in EventsOf("basic.qos") : trace[q].arg.prefetch_count = count
      /\ \A c \in EventsOf("basic.consume") :
           \E q \in EventsOf("basic.qos") : q < c /\ trace[q].ok

\* a run with count = 2 has ended normally after two deliveries
C3_Witness ==
    /\ count = 2
    /\ exit_status = 0
    /\ Cardinality(EventsOf("pipeline")) = 2
    /\ EventsOf("basic.qos") # {}

(***************************************************************************)
(* C4, as claimed: with count unset or outside 1..65535 (count = 0 and     *)
(* count > 65535 included) no basic.qos is issued and the loop never       *)
(* reaches DONE, the return of do_consume to main.                         *)
(***************************************************************************)
C4_Original ==
    (count < 1 \/ count > 65535) =>
      /\ EventsOf("basic.qos") = {}
      /\ pc # "close_connection"
      /\ exit_status # 0

(***************************************************************************)
(* C4, amended: with count unset or outside 1..65535 no basic.qos is       *)
(* issued.  Only a negative count (unset is -1) makes the loop unbounded;  *)
(* a count of 0 or above 65535 still bounds it: the counter never exceeds  *)
(* count, DONE is reached when it equals count, and with count = 0 no      *)
(* frame is ever waited for.                                               *)
(***************************************************************************)
C4_NoQosOutsideRangeUnboundedIffNegative ==
    /\ (count < 1 \/ count > 65535) => EventsOf("basic.qos") = {}
    /\ count < 0 =>
         /\ pc # "close_connection"
         /\ exit_status # 0
         /\ conn # "closed"
    /\ count >= 0 =>
         /\ i <= count
         /\ pc = "close_connection" => i = count
    /\ count = 0 => EventsOf("wait_frame") = {}

\* an unbounded run has consumed two frames and waits for the next
C4_Witness ==
    /\ count < 0
    /\ i >= 2
    /\ pc = "wait_frame"
    /\ EventsOf("basic.consume") # {}

(***************************************************************************)
(* C5, as claimed: a run with a positive count = N that reaches DONE has   *)
(* read N deliveries and streamed them to N pipelines; frames that are no  *)
(* basic.deliver do not use up the count.                                  *)
(***************************************************************************)
C5_DoneAfterCountDeliveries ==
    (count > 0 /\ pc = "close_connection") =>
      /\ Cardinality(Deliveries) = count
      /\ Cardinality(EventsOf("pipeline")) = count
      /\ Cardinality({ c \in EventsOf("copy_body") : trace[c].ok }) = count

C7_DeclareIffNeeded ==
    LET needed == queue = NULL \/ exchange # NULL \/ declare # 0
    IN  /\ \A d \in EventsOf("queue.declare") :
             /\ needed
             /\ trace[d].arg.passive = 0
             /\ trace[d].arg.durable = 0
             /\ trace[d].arg.exclusive = 1
             /\ trace[d].arg.auto_delete = 1
        /\ (needed /\ SetupReturned) => EventsOf("queue.declare") # {}
        /\ ~needed =>
             /\ EventsOf("queue.bind") = {}
             /\ \A c \in EventsOf("basic.consume") : trace[c].arg.queue = queue

\* a named queue is consumed without having been declared
C7_Witness ==
    /\ queue = <<113>>
    /\ EventsOf("queue.declare") = {}
    /\ \E c \in EventsOf("basic.consume") :
         trace[c].ok /\ trace[c].arg.queue = <<113>>

(***************************************************************************)
(* The reverse of the escaping: a backslash followed by three octal digits *)
(* is the byte of that value, every other character is itself.             *)
(***************************************************************************)
IsOctalDigit(c) == c >= 48 /\ c <= 55

RECURSIVE OctalDecode(_)
OctalDecode(s) ==
    IF s = <<>> THEN <<>>
    ELSE IF /\ s[1] = 92
            /\ Len(s) >= 4
            /\ IsOctalDigit(s[2]) /\ IsOctalDigit(s[3]) /\ IsOctalDigit(s[4])
         THEN <<64 * (s[2] - 48) + 8 * (s[3] - 48) + (s[4] - 48)>>
                \o OctalDecode(SubSeq(s, 5, Len(s)))
         ELSE <<s[1]>> \o OctalDecode(Tail(s))

\* what scenario A promises: a declare with the empty name has succeeded,
\* the queue identity is a name of the server's, that name was printed with
\* nothing but printable characters, decoding to the name, and no bind
ScenarioAOutcome ==
    /\ \E d \in EventsOf("queue.declare") :
         trace[d].ok /\ trace[d].arg.queue = <<>>
    /\ queue_bytes \in ServerNames
    /\ \E e \in DOMAIN err_out :
         /\ err_out[e][1] = "Server provided queue name"
         /\ \A x \in DOMAIN err_out[e][2] :
              err_out[e][2][x] >= 32 /\ err_out[e][2][x] # 127
         /\ OctalDecode(err_out[e][2]) = queue_bytes
    /\ EventsOf("queue.bind") = {}

(***************************************************************************)
(* C8, as claimed: with the queue option the empty string, no exchange and *)
(* declare false, a server-named queue is declared, its name captured and  *)
(* printed escaped, and nothing is bound.                                  *)
(***************************************************************************)
C8_Original ==
    (queue = <<>> /\ exchange = NULL /\ declare = 0 /\ SetupReturned)
    => ScenarioAOutcome

(***************************************************************************)
(* C8, amended: with no queue option given (a null queue), no exchange and *)
(* declare false, a server-named queue is declared, its name captured as   *)
(* the queue identity and printed escaped, and nothing is bound.           *)
(***************************************************************************)
C8_ScenarioAWithoutQueueOption ==
    (queue = NULL /\ exchange = NULL /\ declare = 0 /\ SetupReturned)
    => ScenarioAOutcome

\* the server's name with control bytes in it has been captured
C8_Witness ==
    /\ queue = NULL /\ exchange = NULL /\ declare = 0
    /\ SetupReturned
    /\ queue_bytes = <<97, 7, 127>>

(***************************************************************************)
(* C9: a pipeline that exits non-zero is not fatal: no ack is sent in its  *)
(* iteration, the process goes on to release the buffers and from there to *)
(* the next frame wait or, the count reached, to the close of the          *)
(* connection, and it has not exited at either point.                      *)
(***************************************************************************)
C9_PipelineFailureNotFatal ==
    \A f \in EventsOf("finish_pipeline") :
      ~trace[f].arg.success =>
        /\ IterEvents("basic.ack", trace[f].i) = {}
        /\ f = Len(trace) => pc = "release_buffers" /\ exit_status = -1
        /\ f < Len(trace) => trace[f + 1].op = "release_buffers"
        /\ f + 1 = Len(trace) =>
             /\ pc \in {"wait_frame", "close_connection"}
             /\ exit_status = -1
        /\ f + 1 < Len(trace) => trace[f + 2].op \in {"wait_frame", "close"}

\* in ack mode the pipeline for tag 42 failed and a next frame was awaited
C9_Witness ==
    /\ no_ack = 0
    /\ \E f \in EventsOf("finish_pipeline"), w \in EventsOf("wait_frame") :
         /\ ~trace[f].arg.success
         /\ trace[f - 1].arg.delivery_tag = 42
         /\ w > f
         /\ trace[w].ok

(***************************************************************************)
(* C10: a failed queue.declare, queue.bind, basic.qos, basic.consume,      *)
(* frame wait or basic.ack is the last call the process makes: it has      *)
(* exited with status 1, and nothing was retried or issued after it.       *)
(***************************************************************************)
C10_ProtocolFailureIsFatal ==
    \A k \in DOMAIN trace :
      ( /\ ~trace[k].ok
        /\ trace[k].op \in {"queue.declare", "queue.bind", "basic.qos",
                            "basic.consume", "wait_frame", "basic.ack"} )
      => /\ k = Len(trace)
         /\ pc = "exited"
         /\ exit_status = 1

\* the ack of a second delivery has failed
C10_Witness ==
    \E k \in EventsOf("basic.ack") :
      /\ ~trace[k].ok
      /\ trace[k].i >= 1
      /\ pc = "exited"

(***************************************************************************)
(* C11: acks are sent in the order of the deliveries they answer; every    *)
(* ack names one tag (multiple = 0); and before any later frame is waited  *)
(* for, the pipeline of a delivery has been finished (the ack decision     *)
(* taken) and its ack, if any, sent.                                       *)
(***************************************************************************)
C11_AcksInDeliveryOrder ==
    LET acks == EventsOf("basic.ack")
        finishes == EventsOf("finish_pipeline")
        waits == EventsOf("wait_frame")
        received == Deliveries
    IN  /\ \A a \in acks : trace[a].arg.multiple = 0
        /\ \A w1, w2 \in received :
             w1 < w2 =>
               \A a1, a2 \in acks :
                 (trace[a1].i = trace[w1].i /\ trace[a2].i = trace[w2].i)
                 => a1 < a2
        /\ \A w \in received, x \in waits :
             w < x =>
               /\ \E f \in finishes :
                    trace[f].i = trace[w].i /\ w < f /\ f < x
               /\ \A a \in acks : trace[a].i = trace[w].i => a < x

\* two deliveries have been acknowledged
C11_Witness ==
    \E a1, a2 \in EventsOf("basic.ack") :
      /\ a1 < a2
      /\ trace[a1].ok /\ trace[a2].ok
      /\ trace[a1].arg.delivery_tag # trace[a2].arg.delivery_tag

(***************************************************************************)
(* C12: the pipelines spawned and not yet reaped by finish_pipeline are    *)
(* never more than one, and none whenever the program waits for a frame or *)
(* is about to spawn a pipeline; every frame wait made so far was made     *)
(* with no pipeline unreaped.                                              *)
(***************************************************************************)
Spawned(upto) ==
    Cardinality({ k \in EventsOf("pipeline") : trace[k].ok /\ k < upto })
Reaped(upto) ==
    Cardinality({ k \in EventsOf("finish_pipeline") : k < upto })

C12_AtMostOnePipeline ==
    LET live == Spawned(Len(trace) + 1) - Reaped(Len(trace) + 1)
        spawns == { k \in EventsOf("pipeline") : trace[k].ok }
        reaps == EventsOf("finish_pipeline")
    IN  /\ live \in {0, 1}
        /\ pc \in {"wait_frame", "pipeline", "close_connection"} =>
             /\ live = 0
             /\ pl = NoPipeline
        /\ pl \in {"spawned", "streamed"} <=> live = 1
        /\ \A x \in EventsOf("wait_frame") \cup EventsOf("pipeline") :
             Cardinality({ k \in spawns : k < x })
               = Cardinality({ k \in reaps : k < x })

\* a frame is waited for after a pipeline was spawned and reaped
C12_Witness ==
    /\ pc = "wait_frame"
    /\ Spawned(Len(trace) + 1) >= 1
    /\ Spawned(Len(trace) + 1) = Reaped(Len(trace) + 1)

(***************************************************************************)
(* C13, as claimed: a run that established a connection and has ended has  *)
(* closed it exactly once, and nothing is called after the close.          *)
(***************************************************************************)
C13_Original ==
    /\ (pc = "exited" /\ \E k \in EventsOf("connect") : trace[k].ok) =>
         /\ Cardinality(EventsOf("close")) = 1
         /\ conn = "closed"
    /\ \A c \in EventsOf("close") : c = Len(trace)

(***************************************************************************)
(* C13, amended: a run that ends normally (status 0) has closed its        *)
(* connection exactly once, as its last call; a run that ends with status  *)
(* 1 has never called close_connection and leaves the connection as it     *)
(* was; the connection is never closed twice and nothing is called on it   *)
(* after the close.                                                        *)
(***************************************************************************)
C13_ClosedOnceOnNormalExit ==
    /\ Cardinality(EventsOf("close")) <= 1
    /\ \A c \in EventsOf("close") : c = Len(trace)
    /\ (pc = "exited" /\ exit_status = 0) =>
         /\ Cardinality(EventsOf("close")) = 1
         /\ conn = "closed"
    /\ exit_status # 0 =>
         /\ EventsOf("close") = {}
         /\ conn # "closed"

\* a bounded run has ended normally, the connection closed
C13_Witness ==
    /\ pc = "exited"
    /\ exit_status = 0
    /\ conn = "closed"
    /\ EventsOf("pipeline") # {}

(***************************************************************************)
(* stringify_bytes on its own: the program stands at line 99, the server   *)
(* having named the queue with any byte sequence, and prints the name.     *)
(***************************************************************************)
\* byte values on both sides of every test of stringify_bytes, the
\* backslash, and digits that are and are not octal
ByteSamples == {0, 7, 31, 32, 48, 55, 56, 92, 127, 255}
ByteSeqs == UNION { [1..n -> ByteSamples] : n \in 0..MaxLen }

InitStringify ==
    /\ queue = NULL
    /\ exchange = NULL
    /\ routing_key = NULL
    /\ declare = 0
    /\ no_ack = 0
    /\ count = -1
    /\ cmd_argv = <<"cat">>
    /\ pc = "stringify_bytes"
    /\ conn = "open"
    /\ queue_bytes \in ByteSeqs
    /\ i = 0
    /\ frame = NoFrame
    /\ delivery_tag = 0
    /\ pl = NoPipeline
    /\ trace = << [op |-> "connect", ok |-> TRUE, i |-> 0, arg |-> NoArg],
                  [op |-> "queue.declare", ok |-> TRUE, i |-> 0,
                   arg |-> DeclareArg(amqp_empty_bytes)] >>
    /\ err_out = <<>>
    /\ exit_status = -1

\* lines 99-102: sq = stringify_bytes(queue_bytes), printed to stderr
StringifyServerName ==
    /\ pc = "stringify_bytes"
    /\ err_out' = Append(err_out,
           <<"Server provided queue name", stringify_bytes(queue_bytes)>>)
    /\ pc' = "do_consume"
    /\ UNCHANGED <<opts, loopvars, conn, queue_bytes, trace, exit_status>>

SpecStringify == InitStringify /\ [][StringifyServerName]_vars

\* the rendering of one byte, as C14 words it
RenderedByte(b) ==
    IF b < 32 \/ b = 127
    THEN <<92, 48 + (b \div 64), 48 + ((b \div 8) % 8), 48 + (b % 8)>>
    ELSE <<b>>

RECURSIVE RenderedBytes(_)
RenderedBytes(bytes) ==
    IF bytes = <<>> THEN <<>>
    ELSE RenderedByte(Head(bytes)) \o RenderedBytes(Tail(bytes))

(***************************************************************************)
(* C14: the escaped rendering of a byte sequence, decoded (a backslash and *)
(* three octal digits to the byte of that value), is the byte sequence     *)
(* again; bytes below 32 and 127 are rendered as a backslash and three     *)
(* octal digits, the others as themselves.                                 *)
(***************************************************************************)
C14_RoundTrip ==
    (pc = "do_consume" /\ err_out # <<>>) =>
      /\ err_out[1][2] = RenderedBytes(queue_bytes)
      /\ OctalDecode(err_out[1][2]) = queue_bytes

(***************************************************************************)
(* C15: a pipeline is spawned, a body read and an ack sent only in an      *)
(* iteration whose frame is a basic.deliver method frame; after any other  *)
(* frame none of these happens and the program waits for the next frame.   *)
(***************************************************************************)
C15_OnlyDeliverDispatches ==
    /\ \A p \in EventsOf("pipeline") \cup EventsOf("copy_body")
                  \cup EventsOf("basic.ack") :
         \E w \in Deliveries : trace[w].i = trace[p].i /\ w < p
    /\ \A x \in EventsOf("wait_frame") :
         (trace[x].ok /\ x \notin Deliveries) =>
           /\ IterEvents("pipeline", trace[x].i) = {}
           /\ IterEvents("copy_body", trace[x].i) = {}
           /\ IterEvents("basic.ack", trace[x].i) = {}
           /\ x = Len(trace) => pc = "wait_frame"
           /\ x < Len(trace) => trace[x + 1].op = "wait_frame"

(***************************************************************************)
(* Long runs.  A count of 65535 or more is reached only after that many    *)
(* frames; LateInit is the program late in such a run, all but the last    *)
(* MaxFrames - 1 iterations done and the next frame awaited.  Its history  *)
(* holds the calls of the set-up; of the loop, it will hold the calls made *)
(* from here on.                                                           *)
(***************************************************************************)
LateInit ==
    /\ queue = <<113>>
    /\ exchange = NULL
    /\ routing_key = NULL
    /\ declare = 0
    /\ no_ack \in {0, 1}
    /\ count \in {MaxPrefetch, MaxPrefetch + 1}
    /\ cmd_argv = <<"cat">>
    /\ pc = "wait_frame"
    /\ conn = "open"
    /\ queue_bytes = <<113>>
    /\ i = count - (MaxFrames - 1)
    /\ frame = NoFrame
    /\ delivery_tag = 0
    /\ pl = NoPipeline
    /\ trace =
         << [op |-> "connect", ok |-> TRUE, i |-> 0, arg |-> NoArg] >>
         \o (IF count = MaxPrefetch
             THEN << [op |-> "basic.qos", ok |-> TRUE, i |-> 0,
                      arg |-> [prefetch_count |-> count]] >>
             ELSE << >>)
         \o << [op |-> "basic.consume", ok |-> TRUE, i |-> 0,
                arg |-> [queue |-> <<113>>,
                         consumer_tag |-> amqp_empty_bytes,
                         no_ack |-> no_ack, exclusive |-> 0]] >>
    /\ err_out = <<>>
    /\ exit_status = -1

SpecLongRun == (Init \/ LateInit) /\ [][Next]_vars

(***************************************************************************)
(* C16: basic.qos is issued only with a count in 1..65535.  A limit        *)
(* outside that range (0, or above 65535) brings no basic.qos and still    *)
(* bounds the loop: inside the loop the counter is below count, and the    *)
(* loop is left (DONE) with the counter equal to count.                    *)
(***************************************************************************)
C16_QosOnlyInRangeLoopStillBounded ==
    /\ EventsOf("basic.qos") # {} => (count > 0 /\ count <= 65535)
    /\ (count = 0 \/ count > 65535) =>
         /\ EventsOf("basic.qos") = {}
         /\ i <= count
         /\ pc = "close_connection" => i = count
         /\ pc \in {"wait_frame", "pipeline", "copy_body", "finish_pipeline",
                    "basic_ack", "release_buffers"} => i < count

\* a run with count = 65536 has reached DONE, without a basic.qos
C16_Witness ==
    /\ count = 65536
    /\ pc = "close_connection"
    /\ i = 65536
    /\ EventsOf("basic.qos") = {}

(***************************************************************************)
(* Progress.  The program is a sequential process that runs whenever it    *)
(* can: its own steps are always taken, the broker answers every call and  *)
(* sends a frame whenever one is waited for (up to MaxFrames of them), and *)
(* every pipeline terminates.  Whether a call succeeds stays the           *)
(* environment's choice.                                                   *)
(***************************************************************************)
SpecFair == Init /\ [][Next]_vars /\ WF_vars(Next)

\* some call has failed, or the options were refused
ErrorSeen ==
    \/ \E k \in DOMAIN trace : ~trace[k].ok
    \/ cmd_argv = <<>>
    \/ routing_key # NULL /\ exchange = NULL

\* every delivery received has been handled to its end
DeliveriesComplete ==
    \A w \in Deliveries :
      /\ \E f \in IterEvents("finish_pipeline", trace[w].i) : w < f
      /\ \E r \in IterEvents("release_buffers", trace[w].i) : w < r

(***************************************************************************)
(* C17: a run with a positive count that the broker's frames can satisfy   *)
(* eventually ends; unless a call failed or the options were refused it    *)
(* ends with the connection closed and status 0.  The loop is only left    *)
(* (DONE) with every delivery received handled to its end.                 *)
(***************************************************************************)
C17_BoundedRunEndsCleanly ==
    (count > 0 /\ count <= MaxFrames) =>
      /\ <>( /\ pc = "exited"
             /\ \/ ErrorSeen
                \/ exit_status = 0 /\ conn = "closed" )
      /\ [](pc = "close_connection" => DeliveriesComplete)

\* a run with count = 1 has handled one delivery and ended cleanly
C17_Witness ==
    /\ count = 1
    /\ pc = "exited"
    /\ exit_status = 0
    /\ conn = "closed"
    /\ ~ErrorSeen
    /\ Cardinality(Deliveries) = 1
    /\ DeliveriesComplete

(***************************************************************************)
(* C18: once setup_queue has returned, the queue identity is the name      *)
(* given with --queue if one was given, and else the name the server       *)
(* assigned (the one printed); it does not change from then on; and every  *)
(* queue.bind and basic.consume names that identity.                       *)
(***************************************************************************)
C18_QueueIdentityFixed ==
    /\ [](SetupReturned =>
            IF queue # NULL
            THEN queue_bytes = queue
            ELSE /\ queue_bytes \in ServerNames
                 /\ \E e \in DOMAIN err_out :
                      /\ err_out[e][1] = "Server provided queue name"
                      /\ OctalDecode(err_out[e][2]) = queue_bytes)
    /\ [](\A b \in EventsOf("queue.bind") \cup EventsOf("basic.consume") :
            trace[b].arg.queue = queue_bytes)
    /\ [][pc \notin {"main", "make_connection", "setup_queue", "queue_declare"}
            => queue_bytes' = queue_bytes]_vars

\* a server-named queue has been bound and is consumed from
C18_Witness ==
    /\ queue = NULL
    /\ \E b \in EventsOf("queue.bind"), c \in EventsOf("basic.consume") :
         /\ trace[b].ok /\ trace[c].ok
         /\ trace[b].arg.queue \in ServerNames
         /\ trace[c].arg.queue = trace[b].arg.queue

(***************************************************************************)
(* C19: with count = N >= 0 the loop counter counts the frames received,   *)
(* discarded ones included: pipelines spawned <= frames received <= N, at  *)
(* the frame wait and at DONE the counter is the number of frames          *)
(* received, a discarded frame is followed by the next value of the        *)
(* counter, DONE is reached with exactly N frames received, and with       *)
(* count = 0 basic.consume is issued and no frame is ever waited for.      *)
(***************************************************************************)
FramesReceived ==
    Cardinality({ x \in EventsOf("wait_frame") : trace[x].ok })

====
